---- MODULE Spec2Model ----
(***************************************************************************)
(* MultiVector (flatdata-rs/lib/src/multivector.rs): a buffered writer of  *)
(* an indexed sequence of buckets of tagged records, and the read view     *)
(* that close() returns.                                                   *)
(*                                                                         *)
(* The writer's fields are the variables index, data, data_handle and      *)
(* size_flushed.  ExternalVector (the offset index), ResourceHandle (the   *)
(* data sink), the index codec (set_index), the record builder and         *)
(* MultiArrayView are used by the file but defined elsewhere; they are     *)
(* modelled from their interface in the specification.                     *)
(*                                                                         *)
(* Sizes are scaled: the index is IndexBits wide instead of 16 or 32, and  *)
(* the flush threshold ranges over Thresholds, which holds small marks and *)
(* the literal of grow().                                                  *)
(***************************************************************************)
EXTENDS Integers, Sequences, FiniteSets, TLC

\* ---------------------------------------------------------------- bounds
MaxBuckets == 3        \* successful grow calls per run
MaxRecords == 4        \* records appended per run
MaxFailures == 1       \* failed grow calls per run
IndexBits == 4         \* W, the bit width of the index type (scaled)
SmallMark == 11        \* a flush threshold that small runs cross

\* ------------------------------------------------------------- constants
PADDING_SIZE == 8
HIGH_WATER_MARK == 1024 * 1024 * 32

Thresholds == {PADDING_SIZE, SmallMark, HIGH_WATER_MARK}

\* ------------------------------------------------------ variant set (Ab)
\* 0 => A (4 bytes: x, y, 16 bits each), 1 => B (2 bytes: id, 16 bits)
Tags == {0, 1}
SIZE_IN_BYTES(tag) == IF tag = 0 THEN 4 ELSE 2

\* the records a caller appends: <<tag, field values>>
Records == { <<0, <<1, 2>> >>, <<1, <<300>> >> }

\* a 16-bit field, little endian
FieldBytes(v) == << v % 256, (v \div 256) % 256 >>
FieldValue(b) == b[1] + 256 * b[2]

RECURSIVE FieldsBytes(_)
FieldsBytes(fs) ==
    IF fs = << >> THEN << >> ELSE FieldBytes(Head(fs)) \o FieldsBytes(Tail(fs))

\* the bytes of one record in the data stream: tag byte, then the payload
Encode(rec) == << rec[1] >> \o FieldsBytes(rec[2])

\* the record view over the payload bytes that follow a tag
Decode(tag, bytes) ==
    << tag, [k \in 1..(SIZE_IN_BYTES(tag) \div 2) |->
                FieldValue(SubSeq(bytes, 2 * k - 1, 2 * k))] >>

RECURSIVE Flatten(_)
Flatten(recs) ==
    IF recs = << >> THEN << >> ELSE Encode(Head(recs)) \o Flatten(Tail(recs))

RECURSIVE FlattenAll(_)
FlattenAll(bs) ==
    IF bs = << >> THEN << >> ELSE Flatten(Head(bs)) \o FlattenAll(Tail(bs))

IsPrefix(s, t) == Len(s) <= Len(t) /\ SubSeq(t, 1, Len(s)) = s
Max(a, b) == IF a >= b THEN a ELSE b

\* ---------------------------------------------------------- data buffer
Zeros(n) == [i \in 1..n |-> 0]
Padding == Zeros(PADDING_SIZE)
\* &self.data[..self.data.len() - memory::PADDING_SIZE]
Logical(d) == SubSeq(d, 1, Len(d) - PADDING_SIZE)

\* ------------------------------------------------- ResourceHandle (sink)
write(handle, bytes, ok) ==
    IF ok THEN [res |-> "Ok", handle |-> [handle EXCEPT !.bytes = @ \o bytes]]
          ELSE [res |-> "Err", handle |-> handle]

handle_close(handle, ok) ==
    IF ok THEN [res |-> "Ok", handle |-> [handle EXCEPT !.closed = TRUE]]
          ELSE [res |-> "Err", handle |-> handle]

\* ------------------------------------------ ExternalVector (offset index)
index_grow(idx, ok) ==
    IF ok THEN [res |-> "Ok", index |-> [idx EXCEPT !.items = Append(@, 0)]]
          ELSE [res |-> "Err", index |-> idx]

index_close(idx, ok) ==
    IF ok THEN [res |-> "Ok", index |-> [idx EXCEPT !.closed = TRUE]]
          ELSE [res |-> "Err", index |-> idx]

\* IndexStruct::set_index: the value is stored in a field of IndexBits bits
set_index(value) == value % (2 ^ IndexBits)

\* ---------------------------------------------------------- MultiVector
\* io: the outcome of each storage call the operation may make
IO == [data_write : BOOLEAN, index_grow : BOOLEAN,
       index_close : BOOLEAN, data_close : BOOLEAN]
AllOk == [data_write |-> TRUE, index_grow |-> TRUE,
          index_close |-> TRUE, data_close |-> TRUE]

new ==
    [index |-> [items |-> << >>, closed |-> FALSE],
     data |-> Zeros(PADDING_SIZE),
     data_handle |-> [bytes |-> << >>, closed |-> FALSE],
     size_flushed |-> 0]

\* flush that forgets to advance size_flushed
flush_no_advance(self, io) ==
    LET w == write(self.data_handle, Logical(self.data), io.data_write) IN
    IF w.res = "Err"
    THEN [res |-> "Err", self |-> [self EXCEPT !.data_handle = w.handle]]
    ELSE [res |-> "Ok",
          self |-> [self EXCEPT !.data_handle = w.handle,
                                !.data = Zeros(PADDING_SIZE)]]

\* flush that updates size_flushed and the buffer before it looks at the
\* result of the write
flush_mutates_first(self, io) ==
    LET w == write(self.data_handle, Logical(self.data), io.data_write) IN
    [res |-> w.res,
     self |-> [self EXCEPT
                 !.data_handle = w.handle,
                 !.size_flushed = @ + Len(self.data) - PADDING_SIZE,
                 !.data = Zeros(PADDING_SIZE)]]

\* flush that writes its chunk at the start of the resource
flush_rewrites(self, io) ==
    LET w == write([self.data_handle EXCEPT !.bytes = << >>],
                   Logical(self.data), io.data_write) IN
    IF w.res = "Err"
    THEN [res |-> "Err", self |-> self]
    ELSE [res |-> "Ok",
          self |-> [self EXCEPT
                      !.data_handle = w.handle,
                      !.size_flushed = @ + Len(self.data) - PADDING_SIZE,
                      !.data = Zeros(PADDING_SIZE)]]

\* flush that clears the buffer and does not restore the padding
flush_clears_only(self, io) ==
    LET w == write(self.data_handle, Logical(self.data), io.data_write) IN
    IF w.res = "Err"
    THEN [res |-> "Err", self |-> [self EXCEPT !.data_handle = w.handle]]
    ELSE [res |-> "Ok",
          self |-> [self EXCEPT
                      !.data_handle = w.handle,
                      !.size_flushed = @ + Len(self.data) - PADDING_SIZE,
                      !.data = << >>]]

\* flush that counts the padding as flushed
flush_counts_padding(self, io) ==
    LET w == write(self.data_handle, Logical(self.data), io.data_write) IN
    IF w.res = "Err"
    THEN [res |-> "Err", self |-> [self EXCEPT !.data_handle = w.handle]]
    ELSE [res |-> "Ok",
          self |-> [self EXCEPT
                      !.data_handle = w.handle,
                      !.size_flushed = @ + Len(self.data),
                      !.data = Zeros(PADDING_SIZE)]]

flush(self, io) ==
    LET w == write(self.data_handle, Logical(self.data), io.data_write) IN
    IF w.res = "Err"
    THEN [res |-> "Err", self |-> [self EXCEPT !.data_handle = w.handle]]
    ELSE [res |-> "Ok",
          self |-> [self EXCEPT
                      !.data_handle = w.handle,
                      !.size_flushed = @ + Len(self.data) - PADDING_SIZE,
                      !.data = Zeros(PADDING_SIZE)]]

add_to_index(self, io) ==
    LET g == index_grow(self.index, io.index_grow) IN
    IF g.res = "Err"
    THEN [res |-> "Err", self |-> [self EXCEPT !.index = g.index]]
    ELSE [res |-> "Ok",
          self |-> [self EXCEPT !.index =
                      [g.index EXCEPT !.items[Len(g.index.items)] =
                          set_index(self.size_flushed + Len(self.data)
                                      - PADDING_SIZE)]]]

\* grow that never flushes
grow_never_flushes(self, mark, io) ==
    LET a == add_to_index(self, io) IN
    IF a.res = "Err"
    THEN [res |-> "Err", step |-> 2, self |-> a.self]
    ELSE [res |-> "Ok", step |-> 0, self |-> a.self]

\* grow that appends its index entry before it flushes
grow_index_first(self, mark, io) ==
    LET a == add_to_index(self, io) IN
    IF a.res = "Err"
    THEN [res |-> "Err", step |-> 2, self |-> a.self]
    ELSE LET f == IF Len(a.self.data) > mark
                  THEN flush(a.self, io)
                  ELSE [res |-> "Ok", self |-> a.self]
         IN IF f.res = "Err"
            THEN [res |-> "Err", step |-> 1, self |-> f.self]
            ELSE [res |-> "Ok", step |-> 0, self |-> f.self]

\* grow that compares the payload, not the buffer, with the mark
grow_payload_mark(self, mark, io) ==
    LET f == IF Len(self.data) - PADDING_SIZE > mark
             THEN flush(self, io)
             ELSE [res |-> "Ok", self |-> self]
    IN IF f.res = "Err"
       THEN [res |-> "Err", step |-> 1, self |-> f.self]
       ELSE LET a == add_to_index(f.self, io) IN
            IF a.res = "Err"
            THEN [res |-> "Err", step |-> 2, self |-> a.self]
            ELSE [res |-> "Ok", step |-> 0, self |-> a.self]

\* step: 0 when grow returned Ok, else the call that failed
\* (1 = flush, 2 = add_to_index)
grow(self, mark, io) ==
    LET f == IF Len(self.data) > mark
             THEN flush(self, io)
             ELSE [res |-> "Ok", self |-> self]
    IN IF f.res = "Err"
       THEN [res |-> "Err", step |-> 1, self |-> f.self]
       ELSE LET a == add_to_index(f.self, io) IN
            IF a.res = "Err"
            THEN [res |-> "Err", step |-> 2, self |-> a.self]
            ELSE [res |-> "Ok", step |-> 0, self |-> a.self]

None == [index |-> << -1 >>, data |-> << -1 >>]
MultiArrayView_new(index_view, bytes) == [index |-> index_view, data |-> bytes]

\* close that seals the data resource before it finalizes the index
close_seals_data_first(self, io) ==
    LET a == add_to_index(self, io) IN
    IF a.res = "Err"
    THEN [res |-> "Err", step |-> 1, self |-> a.self, view |-> None]
    ELSE LET f == flush(a.self, io) IN
    IF f.res = "Err"
    THEN [res |-> "Err", step |-> 2, self |-> f.self, view |-> None]
    ELSE LET d == handle_close(f.self.data_handle, io.data_close)
             s3 == [f.self EXCEPT !.data_handle = d.handle] IN
    IF d.res = "Err"
    THEN [res |-> "Err", step |-> 4, self |-> s3, view |-> None]
    ELSE LET c == index_close(s3.index, io.index_close)
             s4 == [s3 EXCEPT !.index = c.index] IN
    IF c.res = "Err"
    THEN [res |-> "Err", step |-> 3, self |-> s4, view |-> None]
    ELSE [res |-> "Ok", step |-> 0, self |-> s4,
          view |-> MultiArrayView_new(s4.index.items, s4.data_handle.bytes)]

\* step: 0 when close returned the view, else the call that failed
\* (1 = add_to_index, 2 = flush, 3 = index.close, 4 = data_handle.close)
close(self, io) ==
    LET a == add_to_index(self, io) IN
    IF a.res = "Err"
    THEN [res |-> "Err", step |-> 1, self |-> a.self, view |-> None]
    ELSE LET f == flush(a.self, io) IN
    IF f.res = "Err"
    THEN [res |-> "Err", step |-> 2, self |-> f.self, view |-> None]
    ELSE LET c == index_close(f.self.index, io.index_close)
             s3 == [f.self EXCEPT !.index = c.index] IN
    IF c.res = "Err"
    THEN [res |-> "Err", step |-> 3, self |-> s3, view |-> None]
    ELSE LET d == handle_close(s3.data_handle, io.data_close)
             s4 == [s3 EXCEPT !.data_handle = d.handle] IN
    IF d.res = "Err"
    THEN [res |-> "Err", step |-> 4, self |-> s4, view |-> None]
    ELSE [res |-> "Ok", step |-> 0, self |-> s4,
          view |-> MultiArrayView_new(s4.index.items, s4.data_handle.bytes)]

\* ------------------------------------------------ builder (add_a, add_b)
\* resize the buffer by 1 + SIZE_IN_BYTES zero bytes, then write the tag at
\* old_len - PADDING_SIZE and the payload behind it
add(d, rec) ==
    LET old_len == Len(d)
        increment == 1 + SIZE_IN_BYTES(rec[1])
        resized == d \o Zeros(increment)
        start == old_len - PADDING_SIZE
        bytes == Encode(rec)
    IN [i \in 1..(old_len + increment) |->
           IF i > start /\ i <= start + increment
           THEN bytes[i - start] ELSE resized[i]]

\* ------------------------------------------------------- MultiArrayView
len(v) == Len(v.index) - 1

\* the items of a slice of the data: [status, items]
RECURSIVE Items(_)
Items(slice) ==
    IF slice = << >> THEN [status |-> "ok", items |-> << >>]
    ELSE LET tag == slice[1] IN
         IF tag \notin Tags THEN [status |-> "panic", items |-> << >>]
         ELSE IF Len(slice) < 1 + SIZE_IN_BYTES(tag)
         THEN [status |-> "panic", items |-> << >>]
         ELSE LET rest == Items(SubSeq(slice, 2 + SIZE_IN_BYTES(tag), Len(slice)))
              IN [status |-> rest.status,
                  items |-> << Decode(tag, SubSeq(slice, 2, 1 + SIZE_IN_BYTES(tag))) >>
                              \o rest.items]

\* bucket i (from 0): the items between index[i] and index[i + 1]
at(v, i) ==
    LET start == v.index[i + 1]
        end == v.index[i + 2]
    IN IF start > end \/ end > Len(v.data)
       THEN [status |-> "panic", items |-> << >>]
       ELSE Items(SubSeq(v.data, start + 1, end))

\* the item iterator of bucket i (from 0): a cursor over [index[i], index[i+1])
NoIter == [status |-> "none"]
bucket(v, i) ==
    LET start == v.index[i + 1]
        end == v.index[i + 2]
    IN [status |-> IF start > end \/ end > Len(v.data) THEN "panic" ELSE "ok",
        bucket |-> i, start |-> start, cursor |-> start, end |-> end,
        items |-> << >>]

\* what next() does at a byte that is no tag: the items are RefVariant
\* values (the test matches next().unwrap() against RefVariant::A alone), so
\* there is no error to return; the call panics or ends the iteration
BadTagOutcomes == {"panic", "done"}

\* next() of an item iterator that is not exhausted
next(v, it, bad) ==
    IF it.cursor = it.end THEN [it EXCEPT !.status = "done"]
    ELSE LET tag == v.data[it.cursor + 1] IN
         IF tag \notin Tags THEN [it EXCEPT !.status = bad]
         ELSE IF it.cursor + 1 + SIZE_IN_BYTES(tag) > it.end
         THEN [it EXCEPT !.status = "panic"]
         ELSE [it EXCEPT
                 !.cursor = @ + 1 + SIZE_IN_BYTES(tag),
                 !.items = Append(@, Decode(tag,
                              SubSeq(v.data, it.cursor + 2,
                                     it.cursor + 1 + SIZE_IN_BYTES(tag))))]

\* a duplicate that misses the last byte of the data
clone_truncated(v) == [v EXCEPT !.data = SubSeq(@, 1, Len(@) - 1)]

\* a duplicate of a view shares its bytes
clone(v) == v

\* the view over stored bytes of which the byte at offset p is not a tag
BadTag == 255
damaged(v, p) == [v EXCEPT !.data[p + 1] = BadTag]

\* ------------------------------------------------------------- errors
\* resource names of the multivector and of its index
DataName == "multivector"
IndexName == "multivector_index"
NoName == ""
NoError == [origin |-> NoName, name |-> NoName]

\* the io::Error grow hands on with ?: origin is the resource whose call
\* failed, name the resource the error value names
grow_error(step) ==
    IF step = 0 THEN NoError
    ELSE [origin |-> IF step = 1 THEN DataName ELSE IndexName, name |-> NoName]

\* the ResourceStorageError of close: into_storage_error names the data
\* resource for add_to_index and flush; index.close and data_handle.close
\* return the error of their own resource
close_error(step) ==
    CASE step = 0 -> NoError
      [] step = 1 -> [origin |-> IndexName, name |-> DataName]
      [] step = 2 -> [origin |-> DataName, name |-> DataName]
      [] step = 3 -> [origin |-> IndexName, name |-> IndexName]
      [] step = 4 -> [origin |-> DataName, name |-> DataName]

\* close takes the writer by value (mut self): it is gone afterwards
after_close_by_ref(a) == a

after_close(a) == FALSE

\* ================================================================= state
VARIABLES
    index,          \* self.index: [items, closed]
    data,           \* self.data: the buffer, padding included
    data_handle,    \* self.data_handle: [bytes, closed]
    size_flushed,   \* self.size_flushed
    mark,           \* the flush threshold of grow
    alive,          \* the writer has not been consumed by close
    builder,        \* the caller holds the builder of the last bucket
    view,           \* the view close returned, or None
    lastOp,         \* the last call and its result
    buckets,        \* the records appended to each bucket, in order
    ends,           \* the real end of the stream at each index append
    failures,       \* grow calls that returned an error
    chunks,         \* the lengths of the non-empty chunks the sink received
    twin,           \* the same calls on a writer that uses HIGH_WATER_MARK
    error,          \* the error value the last call returned, or NoError
    reader,         \* the view that is read, or None
    iter,           \* the item iterator in use, or NoIter
    biter           \* the next bucket of the bucket iterator, or -1

vars == << index, data, data_handle, size_flushed, mark, alive, builder,
           view, lastOp, buckets, ends, failures, chunks, twin, error,
           reader, iter, biter >>

rvars == << reader, iter, biter >>
wvars == << index, data, data_handle, size_flushed, mark, alive, builder,
            view, lastOp, buckets, ends, failures, chunks, twin, error >>

Self == [index |-> index, data |-> data, data_handle |-> data_handle,
         size_flushed |-> size_flushed]


RECURSIVE Count(_)
Count(bs) == IF bs = << >> THEN 0 ELSE Len(Head(bs)) + Count(Tail(bs))

\* every byte appended through a builder so far, in order
Appended == FlattenAll(buckets)

Init ==
    /\ index = new.index
    /\ data = new.data
    /\ data_handle = new.data_handle
    /\ size_flushed = new.size_flushed
    /\ mark \in Thresholds
    /\ alive = TRUE
    /\ builder = FALSE
    /\ view = None
    /\ lastOp = [op |-> "new", res |-> "Ok", step |-> 0]
    /\ buckets = << >>
    /\ ends = << >>
    /\ failures = 0
    /\ chunks = << >>
    /\ twin = [self |-> new, view |-> None]
    /\ error = NoError
    /\ reader = None
    /\ iter = NoIter
    /\ biter = -1

\* mv.grow()
Grow ==
    /\ alive
    /\ Len(buckets) < MaxBuckets
    /\ \E io \in {o \in IO : o.index_close /\ o.data_close} :
         LET r == grow(Self, mark, io) IN
         /\ r.res = "Err" => failures < MaxFailures
         /\ index' = r.self.index
         /\ data' = r.self.data
         /\ data_handle' = r.self.data_handle
         /\ size_flushed' = r.self.size_flushed
         /\ builder' = (r.res = "Ok")
         /\ lastOp' = [op |-> "grow", res |-> r.res, step |-> r.step]
         /\ error' = grow_error(r.step)
         /\ buckets' = IF r.res = "Ok" THEN Append(buckets, << >>) ELSE buckets
         /\ ends' = IF Len(r.self.index.items) > Len(index.items)
                    THEN Append(ends, Len(Appended)) ELSE ends
         /\ failures' = IF r.res = "Ok" THEN failures ELSE failures + 1
         /\ chunks' = IF Len(r.self.data_handle.bytes) > Len(data_handle.bytes)
                      THEN Append(chunks, Len(r.self.data_handle.bytes)
                                            - Len(data_handle.bytes))
                      ELSE chunks
         /\ twin' = IF r.res = "Ok"
                    THEN [twin EXCEPT !.self = grow(@, HIGH_WATER_MARK, AllOk).self]
                    ELSE twin
    /\ UNCHANGED << mark, alive, view >>
    /\ UNCHANGED rvars

\* item.add_a() / item.add_b() on the builder grow returned, fields set
AddRecord ==
    /\ alive
    /\ builder
    /\ Count(buckets) < MaxRecords
    /\ \E rec \in Records :
         /\ data' = add(data, rec)
         /\ buckets' = [buckets EXCEPT ![Len(buckets)] = Append(@, rec)]
         /\ twin' = [twin EXCEPT !.self.data = add(@, rec)]
    /\ lastOp' = [op |-> "add", res |-> "Ok", step |-> 0]
    /\ error' = NoError
    /\ UNCHANGED << index, data_handle, size_flushed, mark, alive, builder,
                    view, ends, failures, chunks >>
    /\ UNCHANGED rvars

\* mv.close()
Close ==
    /\ alive
    /\ \E io \in IO :
         LET r == close(Self, io) IN
         /\ index' = r.self.index
         /\ data' = r.self.data
         /\ data_handle' = r.self.data_handle
         /\ size_flushed' = r.self.size_flushed
         /\ view' = r.view
         /\ lastOp' = [op |-> "close", res |-> r.res, step |-> r.step]
         /\ error' = close_error(r.step)
         /\ ends' = IF Len(r.self.index.items) > Len(index.items)
                    THEN Append(ends, Len(Appended)) ELSE ends
         /\ chunks' = IF Len(r.self.data_handle.bytes) > Len(data_handle.bytes)
                      THEN Append(chunks, Len(r.self.data_handle.bytes)
                                            - Len(data_handle.bytes))
                      ELSE chunks
         /\ twin' = IF r.res = "Ok"
                    THEN LET t == close(twin.self, AllOk)
                         IN [self |-> t.self, view |-> t.view]
                    ELSE twin
    /\ alive' = after_close(alive)
    /\ builder' = FALSE
    /\ UNCHANGED << mark, buckets, failures >>
    /\ UNCHANGED rvars

Next == Grow \/ AddRecord \/ Close

Spec == Init /\ [][Next]_vars

\* ---------------------------------------------------------- reading
RECURSIVE Concat(_)
Concat(bs) == IF bs = << >> THEN << >> ELSE Head(bs) \o Concat(Tail(bs))

\* the offsets at which the records appended so far start
RecordStarts ==
    LET recs == Concat(buckets) IN
    { Len(Flatten(SubSeq(recs, 1, k - 1))) : k \in 1..Len(recs) }

\* the tag bytes that may be found damaged: the first and the last record's
Damageable ==
    { p \in RecordStarts : \A q \in RecordStarts : p <= q }
      \cup { p \in RecordStarts : \A q \in RecordStarts : p >= q }

\* the view close returned is used, or a view is built over the stored
\* index and data, in which one tag byte may have been damaged
Open ==
    /\ view # None
    /\ reader = None
    /\ \/ reader' = view
       \/ \E p \in Damageable : reader' = damaged(view, p)
    /\ UNCHANGED << iter, biter >>
    /\ UNCHANGED wvars

\* mv.at(i) or mv.clone().at(i)
Bucket ==
    /\ reader # None
    /\ \E i \in 0..(len(reader) - 1), copy \in BOOLEAN :
         iter' = bucket(IF copy THEN clone(reader) ELSE reader, i)
    /\ UNCHANGED << reader, biter >>
    /\ UNCHANGED wvars

\* item.next()
NextItem ==
    /\ reader # None
    /\ iter # NoIter
    /\ iter.status = "ok"
    /\ \E bad \in BadTagOutcomes : iter' = next(reader, iter, bad)
    /\ UNCHANGED << reader, biter >>
    /\ UNCHANGED wvars

\* mv.iter()
Iter ==
    /\ reader # None
    /\ biter' = 0
    /\ UNCHANGED << reader, iter >>
    /\ UNCHANGED wvars

\* next() of the bucket iterator: the item iterator of the next bucket
IterNext ==
    /\ reader # None
    /\ biter >= 0
    /\ biter < len(reader)
    /\ iter' = bucket(reader, biter)
    /\ biter' = biter + 1
    /\ UNCHANGED reader
    /\ UNCHANGED wvars

\* the runs that are read: every call of the writer returned Ok
Written == Next /\ error' = NoError

NextRead == Written \/ Open \/ Bucket \/ NextItem \/ Iter \/ IterNext

\* the stored index and data do not depend on the threshold (C2), so the
\* runs that are read use one threshold that small runs cross
InitRead == Init /\ mark = SmallMark

SpecRead == InitRead /\ [][NextRead]_vars

TypeOK ==
    /\ index.items \in Seq(0..(2 ^ IndexBits - 1))
    /\ Len(data) >= PADDING_SIZE
    /\ size_flushed \in Nat

\* ================================================================ claims
MaxOffset == 2 ^ IndexBits - 1
Closed == view # None
Last(s) == s[Len(s)]

\* bucket i of the view reads back exactly the records appended to it
ReadsBack(v, bs) ==
    /\ len(v) = Len(bs)
    /\ \A i \in 0..(Len(bs) - 1) :
         at(v, i) = [status |-> "ok", items |-> bs[i + 1]]

\* C1 (stated as claimed): after a successful close the view has one bucket
\* per grow, and bucket i yields exactly the records appended to bucket i,
\* same tags, same field values, same order.
C1_RoundTrip == Closed => ReadsBack(view, buckets)

\* C1, the part the code keeps: the round trip holds for every run whose
\* data stream ends at or below the largest offset the index can store.
C1_RoundTripWithinCapacity ==
    (Closed /\ Len(Appended) <= MaxOffset) => ReadsBack(view, buckets)

\* C2: after a successful close the index and the data on storage are the
\* ones the same calls produce on a writer whose threshold is never crossed,
\* and the sink holds every appended byte once, in append order.
C2_FlushTransparency ==
    Closed =>
        /\ twin.view # None
        /\ view.index = twin.view.index
        /\ view.data = twin.view.data
        /\ data_handle.bytes = Appended

\* a run that flushed in a grow, flushed again in close and returned a view
C2_Witness ==
    /\ Closed
    /\ mark # HIGH_WATER_MARK
    /\ Len(chunks) >= 2
    /\ Len(buckets) >= 2

\* C3 (stated as claimed): after a successful close following n successful
\* grows the index has n + 1 entries, the last entry is the number of bytes
\* written to the data sink, and the view reports len() = n.
C3_Sentinel ==
    Closed =>
        /\ Len(view.index) = Len(buckets) + 1
        /\ Last(view.index) = Len(data_handle.bytes)
        /\ len(view) = Len(buckets)

\* C3, the part the code keeps: n + 1 entries and len() = n; the sentinel is
\* the number of bytes written modulo 2^IndexBits.
C3_SentinelCount ==
    Closed =>
        /\ Len(view.index) = Len(buckets) + 1
        /\ len(view) = Len(buckets)
        /\ Last(view.index) = Len(data_handle.bytes) % (2 ^ IndexBits)

\* C4 (stated as claimed): in every state the entries of the offset index
\* are non-decreasing and the first entry, if any, is 0.
C4_IndexMonotone ==
    /\ \A i, j \in 1..Len(index.items) : i <= j => index.items[i] <= index.items[j]
    /\ index.items # << >> => index.items[1] = 0

\* C5 (stated as claimed): size_flushed is the number of bytes in the sink,
\* size_flushed + buffer.len() - padding is the number of bytes appended,
\* and every index entry is the end of the stream when it was written.
C5_Bookkeeping ==
    /\ size_flushed = Len(data_handle.bytes)
    /\ size_flushed + Len(data) - PADDING_SIZE = Len(Appended)
    /\ index.items = ends

\* C5, the part the code keeps: the two byte counts.
C5_ByteCounts ==
    /\ size_flushed = Len(data_handle.bytes)
    /\ size_flushed + Len(data) - PADDING_SIZE = Len(Appended)
    /\ Len(index.items) = Len(ends)
    /\ \A i \in 1..Len(ends) : index.items[i] = ends[i] % (2 ^ IndexBits)

\* C6 (stated as claimed): a grow or close whose end of stream exceeds
\* 2^IndexBits - 1 returns an error, and no index entry is a truncated offset.
C6_CapacityOverflow ==
    /\ (lastOp.op \in {"grow", "close"} /\ Len(Appended) > MaxOffset)
          => lastOp.res = "Err"
    /\ \A i \in 1..Len(index.items) : index.items[i] = ends[i]

\* the bytes of the records appended to the bucket that is being built
CurrentBucketBytes ==
    IF buckets = << >> THEN 0 ELSE Len(Flatten(Last(buckets)))

\* C7 (stated as claimed): while the writer is in use, the payload held in
\* the buffer never exceeds the high-water mark.
C7_PeakMemory == alive => Len(data) - PADDING_SIZE <= mark

\* C7 (amended): the buffer is measured against the mark only by grow, so
\* what exceeds max(mark, PADDING_SIZE) is never more than the bytes of the
\* records appended to the current bucket.
C7_PeakMemoryPerBucket ==
    Len(data) - CurrentBucketBytes <= Max(mark, PADDING_SIZE)

\* after a flush in a grow, the current bucket has outgrown the mark
C7_Witness ==
    /\ alive
    /\ mark = SmallMark
    /\ size_flushed > 0
    /\ Len(data) > mark

\* the last call failed in the write of its flush
FlushFailed(op) ==
    /\ op.res = "Err"
    /\ \/ op.op = "grow" /\ op.step = 1
       \/ op.op = "close" /\ op.step = 2

\* C8: a grow or close whose data write fails returns the error and leaves
\* size_flushed and the buffer as they were; a grow so failed appends no
\* index entry.
C8_FlushFailureAtomic ==
    [][ FlushFailed(lastOp') =>
          /\ size_flushed' = size_flushed
          /\ data' = data
          /\ Len(data') = Len(data)
          /\ lastOp'.op = "grow" => index' = index ]_vars

\* a grow failed in its flush, with payload in the buffer and earlier
\* chunks on storage
C8_Witness ==
    /\ lastOp = [op |-> "grow", res |-> "Err", step |-> 1]
    /\ Len(data) > PADDING_SIZE
    /\ size_flushed > 0

\* C9: close appends the sentinel, flushes, finalizes the index and seals
\* the data resource in this order; the first failing step ends it with an
\* error, the later steps are not performed, and a view is returned only
\* when all four succeeded.
C9_CloseOrdered ==
    [][ (alive /\ ~alive') =>
          LET st == lastOp'.step IN
          /\ lastOp'.op = "close"
          /\ (lastOp'.res = "Ok") <=> (st = 0)
          /\ (view' # None) <=> (st = 0)
          /\ st = 1 => index'.items = index.items
          /\ st # 1 => Len(index'.items) = Len(index.items) + 1
          /\ st \in {1, 2} =>
                /\ data_handle'.bytes = data_handle.bytes
                /\ size_flushed' = size_flushed
                /\ data' = data
          /\ st \notin {1, 2} =>
                /\ data_handle'.bytes = data_handle.bytes \o Logical(data)
                /\ data' = Zeros(PADDING_SIZE)
          /\ index'.closed <=> (st \in {0, 4})
          /\ data_handle'.closed <=> (st = 0) ]_vars

\* close failed while finalizing the index, after the data was flushed
C9_Witness ==
    /\ lastOp = [op |-> "close", res |-> "Err", step |-> 3]
    /\ Len(data_handle.bytes) > 0
    /\ ~data_handle.closed
    /\ view = None

EmptyBucketsEmpty(v, bs) ==
    \A i \in 0..(Len(bs) - 1) :
        bs[i + 1] = << >> =>
            /\ v.index[i + 1] = v.index[i + 2]
            /\ at(v, i) = [status |-> "ok", items |-> << >>]

\* C11 (stated as claimed): a bucket without records gets index[i] =
\* index[i+1] and reads back empty, and in every interleaving of empty and
\* non-empty buckets each bucket reads back exactly its own records.
C11_Sparsity ==
    Closed =>
        /\ EmptyBucketsEmpty(view, buckets)
        /\ \A i \in 0..(Len(buckets) - 1) :
             at(view, i).status = "ok" /\ at(view, i).items = buckets[i + 1]

\* C11, the part the code keeps: the empty buckets.
C11_EmptyBuckets == Closed => EmptyBucketsEmpty(view, buckets)

\* C12: once close has been called, whether it returned a view or an error,
\* the writer is gone: no later step is a grow, an append or a close, and the
\* index, the buffer and the sink stay as close left them.
C12_ClosedOnce ==
    [][ /\ (alive /\ lastOp'.op = "close") => ~alive'
        /\ ~alive =>
              /\ ~alive'
              /\ lastOp' = lastOp
              /\ index' = index
              /\ data' = data
              /\ data_handle' = data_handle
              /\ size_flushed' = size_flushed ]_vars

\* a close that failed after it appended the sentinel
C12_Witness ==
    /\ ~alive
    /\ lastOp.op = "close"
    /\ lastOp.res = "Err"
    /\ Len(index.items) = Len(buckets) + 1
    /\ Len(buckets) >= 1

\* the step is a grow that called flush (the write succeeded or failed)
GrowFlushes == size_flushed' # size_flushed \/ lastOp'.step = 1

\* C14 (stated as claimed): a grow flushes, before it appends its index
\* entry, exactly when the payload in the buffer, padding not counted,
\* exceeds the mark.
C14_FlushTrigger ==
    [][ lastOp'.op = "grow" =>
          /\ GrowFlushes <=> (Len(data) - PADDING_SIZE > mark)
          /\ lastOp'.step = 1 => index' = index ]_vars

\* C14 (amended): a grow flushes, before it appends its index entry,
\* exactly when the length of the buffer, padding included, exceeds the mark.
C14_FlushTriggerBuffer ==
    [][ lastOp'.op = "grow" =>
          /\ GrowFlushes <=> (Len(data) > mark)
          /\ lastOp'.step = 1 => index' = index ]_vars

\* a grow has flushed a payload that is not larger than the mark
C14_Witness ==
    /\ lastOp.op = "grow"
    /\ lastOp.res = "Ok"
    /\ mark = SmallMark
    /\ size_flushed > 0
    /\ size_flushed <= mark
    /\ data = Zeros(PADDING_SIZE)

\* C16 (stated as claimed): every error grow or close returns names the
\* resource on which the failing write or seal was attempted.
C16_ErrorNamesResource ==
    /\ lastOp.res = "Err" <=> error # NoError
    /\ error # NoError => error.name = error.origin

\* C16, the part the code keeps: the errors of close that come from the
\* data write and from the two seals name their resource.
C16_CloseNamesResource ==
    /\ lastOp.res = "Err" <=> error # NoError
    /\ (lastOp.op = "close" /\ lastOp.step \in {2, 3, 4})
          => error.name = error.origin

\* the step is a call that flushed successfully
FlushedOk ==
    \/ size_flushed' # size_flushed
    \/ lastOp'.op = "close" /\ lastOp'.step \notin {1, 2}

\* C18: the buffer is never shorter than PADDING_SIZE, and right after
\* creation and after every successful flush it is PADDING_SIZE zero bytes.
C18_PaddingInvariant ==
    /\ data = Zeros(PADDING_SIZE)
    /\ [][ /\ Len(data') >= PADDING_SIZE
           /\ (lastOp'.op \in {"grow", "close"} /\ FlushedOk)
                 => data' = Zeros(PADDING_SIZE) ]_vars

\* a grow has flushed every payload it found
C18_Witness ==
    /\ lastOp.op = "grow"
    /\ lastOp.res = "Ok"
    /\ mark = PADDING_SIZE
    /\ Len(chunks) >= 2
    /\ data = Zeros(PADDING_SIZE)

LogicalEnd == size_flushed + Len(data) - PADDING_SIZE

\* C19: a flush leaves size_flushed + buffer.len() - PADDING_SIZE and the
\* index as they are, so a grow appends the entry of the end of the stream
\* whether it flushed or not, the entry a writer that never flushes appends.
C19_FlushKeepsEnd ==
    [][ lastOp'.op \in {"grow", "close"} =>
          /\ LogicalEnd' = LogicalEnd
          /\ (lastOp'.op = "grow" /\ lastOp'.res = "Ok")
                => index'.items = Append(index.items, set_index(LogicalEnd))
          /\ (lastOp'.op = "grow" /\ lastOp'.res = "Err")
                => index'.items = index.items
          /\ (lastOp'.op = "close" /\ lastOp'.step # 1)
                => index'.items = Append(index.items, set_index(LogicalEnd))
          /\ alive' => index'.items = twin'.self.index.items ]_vars

\* a grow flushed and appended the entry a writer that never flushed has
C19_Witness ==
    /\ lastOp.op = "grow"
    /\ lastOp.res = "Ok"
    /\ size_flushed > 0
    /\ twin.self.size_flushed = 0
    /\ Len(index.items) >= 2
    /\ Last(index.items) = size_flushed
    /\ index.items = twin.self.index.items

\* C20: before close the index has one entry per grow that returned Ok; a
\* grow that returns an error appends none, also when its flush succeeded.
C20_IndexTracksGrows ==
    /\ Len(index.items) = Len(buckets)
    /\ [][ /\ alive' => Len(index'.items) = Len(buckets')
           /\ (lastOp'.op = "grow" /\ lastOp'.res = "Ok")
                 => /\ Len(index'.items) = Len(index.items) + 1
                    /\ Len(buckets') = Len(buckets) + 1
           /\ (lastOp'.op = "grow" /\ lastOp'.res = "Err")
                 => index' = index /\ buckets' = buckets ]_vars

\* a grow flushed, then failed in the index append
C20_Witness ==
    /\ lastOp.op = "grow"
    /\ lastOp.res = "Err"
    /\ lastOp.step = 2
    /\ Len(chunks) >= 1
    /\ data = Zeros(PADDING_SIZE)
    /\ Len(index.items) = Len(buckets)

\* the step is a next() on the item iterator in use
NextStep ==
    /\ reader # None
    /\ iter # NoIter
    /\ iter.status = "ok"
    /\ iter' # iter
    /\ iter' # bucket(reader, iter'.bucket)

\* the cursor of the iterator stands on a byte that is no tag
AtBadTag(v, it) == it.cursor < it.end /\ v.data[it.cursor + 1] \notin Tags

\* C13 (stated as claimed): when the byte at the cursor is no tag of the
\* variant set, next() stops the iterator and its result is a format error:
\* it does not crash and does not end as if the bucket were exhausted.
C13_CorruptionDetected ==
    [][ (NextStep /\ AtBadTag(reader, iter))
          => iter' = [iter EXCEPT !.status = "corrupt"] ]_vars

\* C13, the part the code keeps: at a byte that is no tag the iterator
\* yields no item and does not move on.
C13_StopsAtBadTag ==
    [][ (NextStep /\ AtBadTag(reader, iter))
          => /\ iter'.status # "ok"
             /\ iter'.cursor = iter.cursor
             /\ iter'.items = iter.items ]_vars

\* the iterator in use walks its bucket of v within the bucket's bounds
WithinBucket(v, it) ==
    /\ it.status \in {"ok", "done"}
    /\ it.start = v.index[it.bucket + 1]
    /\ it.end = v.index[it.bucket + 2]
    /\ it.start <= it.cursor
    /\ it.cursor <= it.end
    /\ it.cursor = it.start + Len(Flatten(it.items))
    /\ it.status = "done" => it.cursor = it.end

\* C15 (stated as claimed): on a view the writer produced, the iterator of
\* bucket i starts at index[i], advances by 1 + S(tag) per item, reads no
\* byte at or beyond index[i+1] and is exhausted exactly at index[i+1].
C15_IterationBounds ==
    (reader = view /\ reader # None /\ iter # NoIter)
        => WithinBucket(reader, iter)

\* C15, the part the code keeps: the bounds hold on every view of a stream
\* that ends at or below the largest offset the index can store.
C15_IterationBoundsWithinCapacity ==
    (reader = view /\ reader # None /\ iter # NoIter
        /\ Len(Appended) <= MaxOffset)
        => WithinBucket(reader, iter)

====
